---- MODULE Spec2Model ----
(***************************************************************************)
(* A model of nckz/memoize: the file based FIFO mutex                      *)
(* (memoize/fifo_mutex_api.py) and the memoization engine                  *)
(* (memoize/memoize_api.py) over its JSON file backend                     *)
(* (memoize/to_json.py).                                                   *)
(*                                                                         *)
(* Every file system call (open, listdir, getctime, remove, exists) is one *)
(* atomic step; the steps of different instances (processes, threads)      *)
(* interleave freely.                                                      *)
(*                                                                         *)
(*   Spec        FifoMutex_API, NumInst instances on one prefix+key        *)
(*   CrowdSpec   the same with one more instance                           *)
(*   CwdSpec     the same, the processes in any working directory          *)
(*   KeysSpec    the same, the instances on any logical keys               *)
(*   DaySpec     the same, over more than a day                            *)
(*   QuietSpec   the same, distinct timestamps and no reclamation          *)
(*   EngineSpec  MemoizeAPI.run over ToJSON, NumThreads callers            *)
(*   SoloSpec    MemoizeAPI.run, one caller, a function that may raise     *)
(*   KeySpec     MemoizeAPI.key, one engine per caller                     *)
(***************************************************************************)
EXTENDS Integers, FiniteSets, Sequences, TLC

\* ------------------------------------------------------------- bounds
\* Number of FifoMutex_API instances contending on one prefix+key.
NumInst == 2
\* The clock runs from 0 to MaxTime (seconds).
MaxTime == 2
\* The deadlock_age_s the instances are constructed with.
DeadlockAge == 1
\* lock() is called at most MaxLocks times in all (one more in CrowdSpec).
MaxLocks == 2
\* Number of threads (or processes) calling run() on one backend.
NumThreads == 2
\* The wrapped function f(x=1) is called with x in 1..MaxArg.
MaxArg == 2
\* run() is called at most MaxRuns times in all.
MaxRuns == 3

\* datetime.timedelta.seconds is the remainder of the difference within a day.
SecondsPerDay == 86400

Instances == 1..NumInst
Crowd == 1..(NumInst + 1)
Times == 0..MaxTime
\* The logical keys of KeysSpec: "a" and "ab".
LockKeys == {<<"a">>, <<"a", "b">>}
\* Where a process may run: in lock_path, or in some other directory.
Dirs == {"lock_path", "elsewhere"}
Threads == 1..NumThreads
XVals == 1..MaxArg
\* The cache prefixes and the names of the wrapped functions of KeySpec.
Prefixes == {<<>>, <<"a">>, <<"a", "_", "b">>}
Names == {<<"f">>, <<"b", "_", "f">>}
\* What the wrapped function may return: None, an int, a tuple.
Results == {"None", "25", "(1, 2)"}
\* What a call of the wrapped function may do: return a result, or raise.
Outcomes == Results \cup {"raise"}

VARIABLES
    \* ---- the shared file system
    dir,        \* lock files in lock_path: a set of <<ctime, owner>>
    now,        \* the wall clock
    \* ---- one FifoMutex_API instance per process
    cwd,        \* the process's working directory
    lkey,       \* self.key: the logical key the instance was constructed with
    pc,         \* where the instance is inside lock() / unlock()
    _lock,      \* self._lock
    listing,    \* names os.listdir returned that get_locks has yet to stat
    locks,      \* the (time, path) pairs get_locks has collected so far
    cur,        \* wait_for_lock's cur: the oldest lock last seen
    exc,        \* the exception that ended lock(), if any
    nlocks,     \* lock() calls made so far
    tcast,      \* when the lock() call in progress cast its first lock file (else 0)
    \* ---- the memoization engine (MemoizeAPI over ToJSON)
    func,       \* the wrapped function: its result for each x
    invalidate, \* self.invalidate
    cache_prefix, \* self.cache_prefix of the engine each caller uses
    func_name,  \* self.func_name of the engine each caller uses
    backend,    \* the files of cache_path: key -> JSON text, or "absent"
    epc,        \* where the caller is inside run()
    ecall,      \* the (args_in, kwargs_in) of the run() in progress
    data,       \* run's data: what self.func returned
    out,        \* what run() returned
    eexc,       \* the exception that ended run(), if any
    inwith,     \* the caller is inside a `with self.lock(key)` block
    ncalls,     \* how often self.func was invoked, per key
    nruns       \* run() calls made so far

mutexVars == <<dir, now, cwd, lkey, pc, _lock, listing, locks, cur, exc, nlocks, tcast>>
engineVars == <<func, invalidate, cache_prefix, func_name, backend, epc, ecall, data, out, eexc, inwith, ncalls, nruns>>
vars == <<dir, now, cwd, lkey, pc, _lock, listing, locks, cur, exc, nlocks, tcast,
          func, invalidate, cache_prefix, func_name, backend, epc, ecall, data, out, eexc, inwith, ncalls, nruns>>

NoLock == <<>>

\* ------------------------------------------------------------- helpers
\* deadlock_age_s, as passed to __init__.
deadlock_age_s == DeadlockAge

\* Names are sequences of characters. str.startswith.
startswith(s, p) == Len(p) <= Len(s) /\ SubSeq(s, 1, Len(p)) = p

\* The code points of the characters that occur in lock file names.
ord(ch) ==
    CASE ch = "1" -> 49 [] ch = "2" -> 50 [] ch = "3" -> 51 [] ch = "4" -> 52
      [] ch = "_" -> 95 [] ch = "a" -> 97 [] ch = "b" -> 98
      [] ch = "h" -> 104 [] ch = "p" -> 112

RECURSIVE StrLess(_, _)
\* Python's order on str: the first differing character decides, a proper
\* prefix comes first.
StrLess(s, t) ==
    IF s = <<>> THEN t # <<>>
    ELSE IF t = <<>> THEN FALSE
    ELSE IF Head(s) = Head(t) THEN StrLess(Tail(s), Tail(t))
    ELSE ord(Head(s)) < ord(Head(t))

\* The lock_prefix the instances are constructed with.
lock_prefix == <<"p">>

\* __init__: self.full_prefix = f"{self.lock_prefix}_{self.key}".
full_prefix(i) == lock_prefix \o <<"_">> \o lkey[i]

\* uuid(): f"{socket.gethostname()}_{id(self)}", one host, id(self) a digit.
uuid(i) == <<"h", "_">> \o <<(<<"1", "2", "3", "4">>)[i]>>

\* lock_key(): f"{self.full_prefix}_{base}", the name of the lock file of i.
lock_key(i) == full_prefix(i) \o <<"_">> \o uuid(i)

\* os.path: the file named lock_key(o) is in lock_path.
isfile(o, d) == \E e \in d : e[2] = o

\* A wrong enumeration: only the instance's own lock file.
yield_own_lock(i, d) == {e[2] : e \in {f \in d : f[2] = i}}

\* yield_matching_prefix: the names in lock_path (given by their owners) that
\* start with the instance's full_prefix.
yield_matching_prefix(i, d) ==
    {e[2] : e \in {f \in d : startswith(lock_key(f[2]), full_prefix(i))}}

\* check(): get_matching_key() finds a name that starts with lock_key().
check(i, d) ==
    \E o \in yield_matching_prefix(i, d) : startswith(lock_key(o), lock_key(i))

\* get_lock_time(lock): the ctime of the named file (the file must exist).
get_lock_time(o, d) == (CHOOSE e \in d : e[2] = o)[1]

\* A wrong order on (time, path): the path alone decides.
PathLess(e, f) == e[2] < f[2]

\* Python's tuple order on (time, path): time first, then the path.
TupleLess(e, f) ==
    e[1] < f[1] \/ (e[1] = f[1] /\ StrLess(lock_key(e[2]), lock_key(f[2])))

\* A wrong get_oldest_lock: sorted(locks)[-1], the newest lock.
get_newest_lock(S) == CHOOSE e \in S : \A f \in S : e = f \/ TupleLess(f, e)

\* get_oldest_lock: sorted(locks)[0].
get_oldest_lock(S) == CHOOSE e \in S : \A f \in S : e = f \/ TupleLess(e, f)

\* cast_lock: open(self.lock_key(), "w") creates (or truncates) the file named
\* lock_key() relative to the working directory; its ctime becomes now.
cast_lock(i, d) ==
    IF cwd[i] = "lock_path"
    THEN {e \in d : e[2] # i} \cup {<<now, i>>}
    ELSE d

\* delete(lock): os.remove.
delete(o, d) == {e \in d : e[2] # o}

\* (datetime.now() - cur[0]).seconds
AgeSeconds(t) == (now - t) % SecondsPerDay

\* ------------------------------------------------------------- engine helpers
NoKwargs == <<>>

\* The run() calls of the model: f(), f(v) and f(x=v).
Calls ==
    {[args |-> <<>>, kwargs |-> NoKwargs]}
    \cup {[args |-> <<v>>, kwargs |-> NoKwargs] : v \in XVals}
    \cup {[args |-> <<>>, kwargs |-> [n \in {"x"} |-> v]] : v \in XVals}

\* __init__: the defaults inspect.signature finds for the wrapped f(x=1).
default_kwargs == [n \in {"x"} |-> 1]

\* hash(): the positional arguments as passed (ignore_args is None) and the
\* defaults updated with the keywords passed (ignore_kwargs is None). The
\* digest of the pickle is modelled by the pickled pair itself.
hash(args_in, kwargs_in) ==
    LET act_args == args_in
        full_kwargs == [n \in DOMAIN default_kwargs \cup DOMAIN kwargs_in |->
                          IF n \in DOMAIN kwargs_in THEN kwargs_in[n]
                          ELSE default_kwargs[n]]
        act_kwargs == full_kwargs
    IN  <<act_args, act_kwargs>>

\* self.delim, as __init__ defaults it.
delim == <<"_">>

\* MemoizeAPI.key: f"{func_name}{delim}{hash}", after f"{cache_prefix}{delim}"
\* unless cache_prefix is "". The hex digest is one element of the string.
MemoizeAPI_key(prefix, name, args_in, kwargs_in) ==
    LET base == name \o delim \o <<hash(args_in, kwargs_in)>>
    IN  IF prefix = <<>> THEN base ELSE prefix \o delim \o base

\* ToJSON.key: super().key(...) + ".json".
ToJSON_key(prefix, name, args_in, kwargs_in) ==
    MemoizeAPI_key(prefix, name, args_in, kwargs_in) \o <<".json">>

\* key() of the engine that wraps f with cache_prefix "".
key(args_in, kwargs_in) == ToJSON_key(<<>>, <<"f">>, args_in, kwargs_in)

Keys == {key(c.args, c.kwargs) : c \in Calls}

\* self.func(*args_in, **kwargs_in): the x that f(x=1) is entered with.
Bind(c) ==
    IF Len(c.args) > 0 THEN c.args[1]
    ELSE IF "x" \in DOMAIN c.kwargs THEN c.kwargs["x"]
    ELSE default_kwargs["x"]

\* ToJSON.store: json.dump(data, fil). A tuple is written as a JSON array.
json_dump(v) ==
    CASE v = "None" -> "null"
      [] v = "(1, 2)" -> "[1, 2]"
      [] OTHER -> v

\* ToJSON.fetch: json.load(fil). null is None, an array is a list.
json_load(text) ==
    CASE text = "null" -> "None"
      [] OTHER -> text

\* ToJSON.check: os.path.exists.
exists(k) == backend[k] # "absent"

\* run's okey for the call in progress.
okey(t) == ToJSON_key(cache_prefix[t], func_name[t], ecall[t].args, ecall[t].kwargs)

\* ------------------------------------------------------------- Init
\* An empty lock_path; no instance has called lock().
MutexIdle ==
    /\ dir = {}
    /\ now = 0
    /\ pc = [i \in Crowd |-> "idle"]
    /\ _lock = [i \in Crowd |-> FALSE]
    /\ listing = [i \in Crowd |-> {}]
    /\ locks = [i \in Crowd |-> {}]
    /\ cur = [i \in Crowd |-> NoLock]
    /\ exc = [i \in Crowd |-> "none"]
    /\ nlocks = 0
    /\ tcast = [i \in Crowd |-> 0]

\* All processes run in lock_path, all instances are on the key "a".
MutexInit ==
    /\ MutexIdle
    /\ cwd = [i \in Crowd |-> "lock_path"]
    /\ lkey = [i \in Crowd |-> <<"a">>]

\* No run() has been called; the backend is empty.
EngineIdle ==
    /\ backend = [k \in Keys |-> "absent"]
    /\ epc = [t \in Threads |-> "idle"]
    /\ ecall = [t \in Threads |-> [args |-> <<>>, kwargs |-> NoKwargs]]
    /\ data = [t \in Threads |-> "unset"]
    /\ out = [t \in Threads |-> "unset"]
    /\ eexc = [t \in Threads |-> "none"]
    /\ inwith = [t \in Threads |-> FALSE]
    /\ ncalls = [k \in Keys |-> 0]
    /\ nruns = 0

\* All callers use one engine: f wrapped with cache_prefix "".
OneEngine ==
    /\ cache_prefix = [t \in Threads |-> <<>>]
    /\ func_name = [t \in Threads |-> <<"f">>]

Init ==
    /\ MutexInit
    /\ EngineIdle
    /\ OneEngine
    /\ func = [x \in XVals |-> "25"]
    /\ invalidate = FALSE

\* The processes run in any directories.
CwdInit ==
    /\ MutexIdle
    /\ cwd \in [Crowd -> Dirs]
    /\ lkey = [i \in Crowd |-> <<"a">>]
    /\ EngineIdle
    /\ OneEngine
    /\ func = [x \in XVals |-> "25"]
    /\ invalidate = FALSE

\* The instances are constructed with any logical keys, on one lock_prefix.
KeysInit ==
    /\ MutexIdle
    /\ cwd = [i \in Crowd |-> "lock_path"]
    /\ lkey \in [Crowd -> LockKeys]
    /\ EngineIdle
    /\ OneEngine
    /\ func = [x \in XVals |-> "25"]
    /\ invalidate = FALSE

\* Any wrapped function, one that may raise included.
SoloInit ==
    /\ MutexInit
    /\ EngineIdle
    /\ OneEngine
    /\ func \in [XVals -> Outcomes]
    /\ invalidate \in BOOLEAN

\* Each caller has an engine of its own, any prefix around any function name.
KeyInit ==
    /\ MutexInit
    /\ EngineIdle
    /\ cache_prefix \in [Threads -> Prefixes]
    /\ func_name \in [Threads -> Names]
    /\ func = [x \in XVals |-> "25"]
    /\ invalidate = FALSE

\* Any wrapped function, with the invalidate flag set or not.
EngineInit ==
    /\ MutexInit
    /\ EngineIdle
    /\ OneEngine
    /\ func \in [XVals -> Results]
    /\ invalidate \in BOOLEAN

\* ------------------------------------------------------------- actions
\* The clock advances.
Tick ==
    /\ now < MaxTime
    /\ now' = now + 1
    /\ UNCHANGED <<dir, cwd, lkey, pc, _lock, listing, locks, cur, exc, nlocks, tcast>>
    /\ UNCHANGED engineVars

\* lock() -> wait_for_lock(): the first cast_lock(). At most `budget` calls.
wait_for_lock(i, budget) ==
    /\ pc[i] \in {"idle", "released", "unlocked"}
    /\ nlocks < budget
    /\ nlocks' = nlocks + 1
    /\ tcast' = [tcast EXCEPT ![i] = now]
    /\ dir' = cast_lock(i, dir)
    /\ pc' = [pc EXCEPT ![i] = "get_oldest"]
    /\ UNCHANGED <<now, cwd, lkey, _lock, listing, locks, cur, exc>>
    /\ UNCHANGED engineVars

\* lock(), by one of NumInst instances.
Lock(i) == wait_for_lock(i, MaxLocks)

\* lock(), by one of NumInst + 1 instances.
CrowdLock(i) == wait_for_lock(i, MaxLocks + 1)

\* get_oldest_lock() -> get_locks(): os.listdir(lock_path). With no matching
\* name get_locks() returns [] and [0] raises IndexError.
ListDir(i) ==
    /\ pc[i] = "get_oldest"
    /\ LET names == yield_matching_prefix(i, dir) IN
       IF names = {}
       THEN /\ pc' = [pc EXCEPT ![i] = "raised"]
            /\ exc' = [exc EXCEPT ![i] = "IndexError"]
            /\ UNCHANGED <<listing, locks>>
       ELSE /\ pc' = [pc EXCEPT ![i] = "stat"]
            /\ listing' = [listing EXCEPT ![i] = names]
            /\ locks' = [locks EXCEPT ![i] = {}]
            /\ exc' = exc
    /\ tcast' = IF pc'[i] = "raised" THEN [tcast EXCEPT ![i] = 0] ELSE tcast
    /\ UNCHANGED <<dir, now, cwd, lkey, _lock, cur, nlocks>>
    /\ UNCHANGED engineVars

\* get_locks(): os.path.getctime of the next listed name; FileNotFoundError if
\* the file is gone. After the last name: sorted(locks)[0] is compared with
\* this instance's own path; equal ends the loop and sets _lock.
Stat(i) ==
    /\ pc[i] = "stat"
    /\ \E o \in listing[i] :
         IF ~isfile(o, dir)
         THEN /\ pc' = [pc EXCEPT ![i] = "raised"]
              /\ exc' = [exc EXCEPT ![i] = "FileNotFoundError"]
              /\ listing' = [listing EXCEPT ![i] = {}]
              /\ locks' = [locks EXCEPT ![i] = {}]
              /\ UNCHANGED <<_lock, cur>>
         ELSE LET got == locks[i] \cup {<<get_lock_time(o, dir), o>>}
                  rest == listing[i] \ {o}
              IN  /\ exc' = exc
                  /\ IF rest # {}
                     THEN /\ listing' = [listing EXCEPT ![i] = rest]
                          /\ locks' = [locks EXCEPT ![i] = got]
                          /\ UNCHANGED <<pc, _lock, cur>>
                     ELSE /\ listing' = [listing EXCEPT ![i] = {}]
                          /\ locks' = [locks EXCEPT ![i] = {}]
                          /\ IF get_oldest_lock(got)[2] = i
                             THEN /\ pc' = [pc EXCEPT ![i] = "held"]
                                  /\ _lock' = [_lock EXCEPT ![i] = TRUE]
                                  /\ cur' = cur
                             ELSE /\ pc' = [pc EXCEPT ![i] = "sleep"]
                                  /\ _lock' = _lock
                                  /\ cur' = [cur EXCEPT ![i] = get_oldest_lock(got)]
    /\ tcast' = IF pc'[i] \in {"held", "raised"} THEN [tcast EXCEPT ![i] = 0] ELSE tcast
    /\ UNCHANGED <<dir, now, cwd, lkey, nlocks>>
    /\ UNCHANGED engineVars

\* time.sleep(poll_time_s), then: if not self.check(): self.cast_lock().
Poll(i) ==
    /\ pc[i] = "sleep"
    /\ dir' = IF check(i, dir) THEN dir ELSE cast_lock(i, dir)
    /\ pc' = [pc EXCEPT ![i] = "deadlock"]
    /\ UNCHANGED <<now, cwd, lkey, _lock, listing, locks, cur, exc, nlocks, tcast>>
    /\ UNCHANGED engineVars

\* The deadlock check: the age of cur (as read before the sleep) against
\* deadlock_age_s, then os.remove(cur[1]), FileNotFoundError if it is gone.
Reclaim(i) ==
    /\ pc[i] = "deadlock"
    /\ IF AgeSeconds(cur[i][1]) > deadlock_age_s
       THEN IF isfile(cur[i][2], dir)
            THEN /\ dir' = delete(cur[i][2], dir)
                 /\ pc' = [pc EXCEPT ![i] = "get_oldest"]
                 /\ exc' = exc
            ELSE /\ pc' = [pc EXCEPT ![i] = "raised"]
                 /\ exc' = [exc EXCEPT ![i] = "FileNotFoundError"]
                 /\ dir' = dir
       ELSE /\ pc' = [pc EXCEPT ![i] = "get_oldest"]
            /\ UNCHANGED <<dir, exc>>
    /\ cur' = [cur EXCEPT ![i] = NoLock]
    /\ tcast' = IF pc'[i] = "raised" THEN [tcast EXCEPT ![i] = 0] ELSE tcast
    /\ UNCHANGED <<now, cwd, lkey, _lock, listing, locks, nlocks>>
    /\ UNCHANGED engineVars

\* A wrong unlock: no except clause, the exception leaves unlock().
unlock_reraise(e) == e

\* A day passes (a holder that keeps the mutex, a process that hangs).
DayPasses ==
    /\ now < SecondsPerDay
    /\ now' = now + SecondsPerDay
    /\ UNCHANGED <<dir, cwd, lkey, pc, _lock, listing, locks, cur, exc, nlocks, tcast>>
    /\ UNCHANGED engineVars

\* lock() when no lock file in lock_path has the timestamp of this moment.
QuietLock(i) ==
    /\ \A e \in dir : e[1] # now
    /\ Lock(i)

\* The deadlock check when cur has not reached the deadlock age.
QuietReclaim(i) ==
    /\ pc[i] = "deadlock"
    /\ AgeSeconds(cur[i][1]) <= deadlock_age_s
    /\ Reclaim(i)

\* unlock's `except FileNotFoundError`: reported and swallowed.
unlock_except(e) == IF e = "FileNotFoundError" THEN "none" ELSE e

\* unlock(): _lock = False, then os.remove of the own file, FileNotFoundError
\* if it is gone. unlock() is called after lock() returned ("held") and once
\* more after that ("released").
Unlock(i) ==
    /\ pc[i] \in {"held", "released"}
    /\ _lock' = [_lock EXCEPT ![i] = FALSE]
    /\ dir' = delete(i, dir)
    /\ LET err == unlock_except(IF isfile(i, dir) THEN "none" ELSE "FileNotFoundError") IN
         /\ exc' = [exc EXCEPT ![i] = err]
         /\ pc' = [pc EXCEPT ![i] = IF err # "none" THEN "raised"
                                     ELSE IF pc[i] = "held" THEN "released"
                                     ELSE "unlocked"]
    /\ UNCHANGED <<now, cwd, lkey, listing, locks, cur, nlocks, tcast>>
    /\ UNCHANGED engineVars

\* ------------------------------------------------------------- engine actions
\* run(*args_in, **kwargs_in): okey = self.key(args_in, kwargs_in).
Run(t, c) ==
    /\ epc[t] \in {"idle", "returned", "raised"}
    /\ nruns < MaxRuns
    /\ nruns' = nruns + 1
    /\ ecall' = [ecall EXCEPT ![t] = c]
    /\ epc' = [epc EXCEPT ![t] = IF invalidate THEN "delete" ELSE "get_check"]
    /\ data' = [data EXCEPT ![t] = "unset"]
    /\ out' = [out EXCEPT ![t] = "unset"]
    /\ eexc' = [eexc EXCEPT ![t] = "none"]
    /\ UNCHANGED <<func, invalidate, cache_prefix, func_name, backend, inwith, ncalls>>
    /\ UNCHANGED mutexVars

\* run: if self.invalidate: self.delete(okey). ToJSON.delete is os.remove,
\* FileNotFoundError when there is no such file.
Delete(t) ==
    /\ epc[t] = "delete"
    /\ IF exists(okey(t))
       THEN /\ backend' = [backend EXCEPT ![okey(t)] = "absent"]
            /\ epc' = [epc EXCEPT ![t] = "get_check"]
            /\ eexc' = eexc
       ELSE /\ epc' = [epc EXCEPT ![t] = "raised"]
            /\ eexc' = [eexc EXCEPT ![t] = "FileNotFoundError"]
            /\ backend' = backend
    /\ UNCHANGED <<func, invalidate, cache_prefix, func_name, ecall, data, out, inwith, ncalls, nruns>>
    /\ UNCHANGED mutexVars

\* get: if self.check(key); without an entry get returns None (a miss).
GetCheck(t) ==
    /\ epc[t] = "get_check"
    /\ epc' = [epc EXCEPT ![t] = IF exists(okey(t)) THEN "get_lock" ELSE "call"]
    /\ UNCHANGED <<func, invalidate, cache_prefix, func_name, backend, ecall, data, out, eexc, inwith, ncalls, nruns>>
    /\ UNCHANGED mutexVars

\* get: with self.lock(key). lock() returns a new DefaultLock, whose
\* threading.Lock nobody else holds: __enter__ never waits.
GetLock(t) ==
    /\ epc[t] = "get_lock"
    /\ inwith' = [inwith EXCEPT ![t] = TRUE]
    /\ epc' = [epc EXCEPT ![t] = "fetch"]
    /\ UNCHANGED <<func, invalidate, cache_prefix, func_name, backend, ecall, data, out, eexc, ncalls, nruns>>
    /\ UNCHANGED mutexVars

\* get: return self.fetch(key), leaving the with block; then run's
\* `if (out := self.get(okey)) is not None: return out`.
Fetch(t) ==
    /\ epc[t] = "fetch"
    /\ inwith' = [inwith EXCEPT ![t] = FALSE]
    /\ IF ~exists(okey(t))
       THEN /\ epc' = [epc EXCEPT ![t] = "raised"]
            /\ eexc' = [eexc EXCEPT ![t] = "FileNotFoundError"]
            /\ out' = out
       ELSE /\ eexc' = eexc
            /\ IF json_load(backend[okey(t)]) # "None"
               THEN /\ out' = [out EXCEPT ![t] = json_load(backend[okey(t)])]
                    /\ epc' = [epc EXCEPT ![t] = "returned"]
               ELSE /\ out' = out
                    /\ epc' = [epc EXCEPT ![t] = "call"]
    /\ UNCHANGED <<func, invalidate, cache_prefix, func_name, backend, ecall, data, ncalls, nruns>>
    /\ UNCHANGED mutexVars

\* A wrong run(): an exception of self.func is caught and run() goes on.
after_call_caught(r) == "put_check"

\* Where run() is after self.func(...): an exception of self.func leaves
\* run(), there is no try around the call.
after_call(r) == IF r = "raise" THEN "raised" ELSE "put_check"

\* run: data = self.func(*args_in, **kwargs_in).
CallFunc(t) ==
    /\ epc[t] = "call"
    /\ ncalls' = [ncalls EXCEPT ![okey(t)] = @ + 1]
    /\ LET r == func[Bind(ecall[t])] IN
         /\ epc' = [epc EXCEPT ![t] = after_call(r)]
         /\ data' = [data EXCEPT ![t] = IF after_call(r) = "raised" THEN @ ELSE r]
         /\ eexc' = [eexc EXCEPT ![t] = IF after_call(r) = "raised" THEN "FuncError" ELSE @]
    /\ UNCHANGED <<func, invalidate, cache_prefix, func_name, backend, ecall, out, inwith, nruns>>
    /\ UNCHANGED mutexVars

\* put: if self.check(key): raise KeyError.
PutCheck(t) ==
    /\ epc[t] = "put_check"
    /\ IF exists(okey(t))
       THEN /\ epc' = [epc EXCEPT ![t] = "raised"]
            /\ eexc' = [eexc EXCEPT ![t] = "KeyError"]
       ELSE /\ epc' = [epc EXCEPT ![t] = "put_lock"]
            /\ eexc' = eexc
    /\ UNCHANGED <<func, invalidate, cache_prefix, func_name, backend, ecall, data, out, inwith, ncalls, nruns>>
    /\ UNCHANGED mutexVars

\* put: with self.lock(key), again a new DefaultLock.
PutLock(t) ==
    /\ epc[t] = "put_lock"
    /\ inwith' = [inwith EXCEPT ![t] = TRUE]
    /\ epc' = [epc EXCEPT ![t] = "store"]
    /\ UNCHANGED <<func, invalidate, cache_prefix, func_name, backend, ecall, data, out, eexc, ncalls, nruns>>
    /\ UNCHANGED mutexVars

\* put: self.store(key, data), leaving the with block; return data.
Store(t) ==
    /\ epc[t] = "store"
    /\ backend' = [backend EXCEPT ![okey(t)] = json_dump(data[t])]
    /\ inwith' = [inwith EXCEPT ![t] = FALSE]
    /\ out' = [out EXCEPT ![t] = data[t]]
    /\ epc' = [epc EXCEPT ![t] = "returned"]
    /\ UNCHANGED <<func, invalidate, cache_prefix, func_name, ecall, data, eexc, ncalls, nruns>>
    /\ UNCHANGED mutexVars

\* ------------------------------------------------------------- specifications
Next ==
    \/ Tick
    \/ \E i \in Instances : Lock(i)
    \/ \E i \in Instances : ListDir(i)
    \/ \E i \in Instances : Stat(i)
    \/ \E i \in Instances : Poll(i)
    \/ \E i \in Instances : Reclaim(i)
    \/ \E i \in Instances : Unlock(i)

Spec == Init /\ [][Next]_vars

CrowdNext ==
    \/ Tick
    \/ \E i \in Crowd : CrowdLock(i)
    \/ \E i \in Crowd : ListDir(i)
    \/ \E i \in Crowd : Stat(i)
    \/ \E i \in Crowd : Poll(i)
    \/ \E i \in Crowd : Reclaim(i)
    \/ \E i \in Crowd : Unlock(i)

CrowdSpec == Init /\ [][CrowdNext]_vars

\* The mutex used from any working directory.
CwdSpec == CwdInit /\ [][Next]_vars

\* The mutex used for several logical keys.
KeysSpec == KeysInit /\ [][Next]_vars

\* The mutex over more than a day.
DayNext ==
    \/ DayPasses
    \/ Next

DaySpec == Init /\ [][DayNext]_vars

\* The mutex while lock files have distinct timestamps and none is reclaimed.
QuietNext ==
    \/ Tick
    \/ \E i \in Instances : QuietLock(i)
    \/ \E i \in Instances : ListDir(i)
    \/ \E i \in Instances : Stat(i)
    \/ \E i \in Instances : Poll(i)
    \/ \E i \in Instances : QuietReclaim(i)
    \/ \E i \in Instances : Unlock(i)

QuietSpec == Init /\ [][QuietNext]_vars

EngineNext ==
    \/ \E t \in Threads, c \in Calls : Run(t, c)
    \/ \E t \in Threads : Delete(t)
    \/ \E t \in Threads : GetCheck(t)
    \/ \E t \in Threads : GetLock(t)
    \/ \E t \in Threads : Fetch(t)
    \/ \E t \in Threads : CallFunc(t)
    \/ \E t \in Threads : PutCheck(t)
    \/ \E t \in Threads : PutLock(t)
    \/ \E t \in Threads : Store(t)

EngineSpec == EngineInit /\ [][EngineNext]_vars

\* run() called by one thread only.
SoloNext ==
    \/ \E c \in Calls : Run(1, c)
    \/ Delete(1)
    \/ GetCheck(1)
    \/ GetLock(1)
    \/ Fetch(1)
    \/ CallFunc(1)
    \/ PutCheck(1)
    \/ PutLock(1)
    \/ Store(1)

SoloSpec == SoloInit /\ [][SoloNext]_vars

\* run() up to its first line, okey = self.key(args_in, kwargs_in).
KeyNext == \E t \in Threads, c \in Calls : Run(t, c)

KeySpec == KeyInit /\ [][KeyNext]_vars

TypeOK ==
    /\ dir \subseteq Nat \X Crowd
    /\ now \in Nat
    /\ \A i \in Crowd : pc[i] \in {"idle", "get_oldest", "stat", "sleep", "deadlock", "held",
                                  "released", "unlocked", "raised"}
    /\ \A k \in Keys : backend[k] \in {"absent", "null", "25", "[1, 2]"}
    /\ \A t \in Threads : eexc[t] \in {"none", "FileNotFoundError", "KeyError", "FuncError"}
    /\ nruns \in 0..MaxRuns

\* ------------------------------------------------------------- claims: the mutex
\* The instance is inside lock(), not yet returned.
Waiting(i) == pc[i] \in {"get_oldest", "stat", "sleep", "deadlock"}

\* C1 as claimed: mutual exclusion. In every reachable state at most one
\* instance has _lock = TRUE.
C1_MutualExclusion ==
    \A i, j \in Crowd : (_lock[i] /\ _lock[j]) => i = j

\* C1 as amended: two instances never have _lock = TRUE together while both
\* their lock files are in the lock directory with different timestamps. (A
\* holder whose file a waiter reclaimed as stale, or whose file shares its
\* timestamp with another's, can be joined by a second holder.)
C1_MutualExclusionOfPresentLocks ==
    \A i, j \in Crowd :
        ( /\ _lock[i] /\ _lock[j]
          /\ check(i, dir) /\ check(j, dir)
          /\ get_lock_time(i, dir) # get_lock_time(j, dir) ) => i = j

\* C1: an instance holds the mutex, its lock file in place, while another one
\* has seen that file as the oldest and sleeps with its own file cast.
C1_Witness ==
    \E i, j \in Crowd :
        /\ i # j
        /\ _lock[i] /\ check(i, dir)
        /\ pc[j] = "sleep" /\ check(j, dir)
        /\ cur[j] = <<get_lock_time(i, dir), i>>
        /\ get_lock_time(i, dir) # get_lock_time(j, dir)

\* C4 as claimed: FIFO fairness. When an instance returns from lock(), no
\* instance whose lock() call cast its lock file at an earlier timestamp is
\* still waiting: the instances return from lock() in the order they cast.
C4_FifoByCastOrder ==
    [][ \A j \in Crowd :
          (~_lock[j] /\ _lock'[j]) =>
             \A i \in Crowd :
                (i # j /\ Waiting(i)) => tcast[j] <= tcast[i] ]_vars

\* C4 as amended: FIFO fairness. When an instance returns from lock() (its _lock becomes
\* TRUE, its lock file in place), no instance still waiting in lock() has a
\* lock file with an earlier timestamp: instances acquire in the order of the
\* timestamps of their lock files.
C4_Fifo ==
    [][ \A j \in Crowd :
          (~_lock[j] /\ _lock'[j] /\ check(j, dir)) =>
             \A i \in Crowd :
                (i # j /\ Waiting(i) /\ check(i, dir)) =>
                    get_lock_time(j, dir) <= get_lock_time(i, dir) ]_vars

\* C4: an instance holds the mutex while one with a smaller path, which cast
\* later, waits behind it: the timestamp decided, not the path.
C4_Witness ==
    \E i, j \in Crowd :
        /\ i < j
        /\ _lock[j] /\ check(j, dir)
        /\ pc[i] = "sleep" /\ check(i, dir)
        /\ get_lock_time(j, dir) < get_lock_time(i, dir)

\* C5: deadlock self-healing, in the form a finite run refutes. While an
\* instance holds the mutex and does not release it, the lock() of an instance
\* waiting behind it never ends with an exception (so that it can go on
\* polling until the holder's file is stale, remove it and acquire).
C5_SelfHealing ==
    [][ \A h, j \in Crowd :
          (h # j /\ pc[h] = "held" /\ Waiting(j)) => pc'[j] # "raised" ]_vars

\* C6: starvation freedom, in the form a finite run refutes. Every step of an
\* instance that is inside lock() leaves it inside lock() or returns from
\* lock() with the mutex held: no lock() call ends in any other way.
C6_StarvationFree ==
    [][ \A i \in Crowd : Waiting(i) => (Waiting(i)' \/ (pc'[i] = "held" /\ _lock'[i])) ]_vars

\* C10: contention and staleness never surface as errors. No lock() call ever
\* raises an exception.
C10_LockNeverRaises ==
    \A i \in Crowd : exc[i] = "none"

\* C11: release idempotence. An unlock() that finds this instance's lock file
\* absent (reclaimed by a waiter, or removed by an earlier unlock()) does not
\* raise, leaves the instance with _lock = FALSE and leaves the lock directory
\* as it was; and no unlock() touches another instance's lock file.
C11_ReleaseIdempotent ==
    [][ \A i \in Crowd :
          ( \/ (pc[i] = "held" /\ pc'[i] # "held")
            \/ (pc[i] = "released" /\ pc'[i] \in {"unlocked", "raised"}) ) =>
             /\ {e \in dir' : e[2] # i} = {e \in dir : e[2] # i}
             /\ ~isfile(i, dir) =>
                    /\ exc'[i] = "none"
                    /\ pc'[i] # "raised"
                    /\ ~_lock'[i]
                    /\ dir' = dir ]_vars

\* C11: an instance has called unlock() twice, the second time with its lock
\* file gone, while another instance's lock file is in the lock directory.
C11_Witness ==
    \E i, j \in Crowd :
        /\ i # j
        /\ pc[i] = "unlocked" /\ ~_lock[i] /\ exc[i] = "none"
        /\ isfile(j, dir)

\* ------------------------------------------------------------- claims: the engine
\* Thread 1 is the only caller so far.
SingleCaller == \A t \in Threads : t # 1 => epc[t] = "idle"

RECURSIVE SumCalls(_)
\* The wrapped function's call counter: its invocations over all keys.
SumCalls(S) ==
    IF S = {} THEN 0
    ELSE LET k == CHOOSE x \in S : TRUE IN ncalls[k] + SumCalls(S \ {k})

\* C2: at-most-once computation. With invalidate off and a wrapped function
\* that does not return None for the arguments, the function is invoked at
\* most once per key, however many callers run() concurrently.
C2_AtMostOnce ==
    ~invalidate =>
        \A c \in Calls :
            func[Bind(c)] # "None" => ncalls[key(c.args, c.kwargs)] <= 1

\* C3: at most one writer per cache key. A put() that finds an entry raises
\* KeyError and leaves the backend unchanged, and store() is never executed on
\* a key that has an entry.
C3_SingleWriter ==
    [][ \A t \in Threads :
          /\ (epc[t] = "put_check" /\ epc'[t] # "put_check" /\ exists(okey(t)))
                => (epc'[t] = "raised" /\ backend' = backend)
          /\ (epc[t] = "store" /\ epc'[t] # "store") => ~exists(okey(t)) ]_vars

\* C7: miss then hit. For a single caller with invalidate off, the wrapped
\* function is invoked at most once per key, no run() raises, and every run()
\* that has returned has returned the function's value for its arguments and
\* left an entry for the key, with the call count at 1.
C7_MissThenHit ==
    (SingleCaller /\ ~invalidate) =>
        /\ \A k \in Keys : ncalls[k] <= 1
        /\ epc[1] # "raised"
        /\ epc[1] = "returned" =>
              /\ out[1] = func[Bind(ecall[1])]
              /\ exists(okey(1))
              /\ ncalls[okey(1)] = 1

\* C8: transparent wrapping. For a single caller with invalidate off, no run()
\* raises and every run() that has returned, on the miss path or on the hit
\* path, has returned exactly the value of the wrapped function, None included.
C8_Transparent ==
    (SingleCaller /\ ~invalidate) =>
        /\ eexc[1] = "none"
        /\ \A v \in Results :
              (epc[1] = "returned" /\ func[Bind(ecall[1])] = v) => out[1] = v

\* C9: the invalidate scenario. For a single caller with invalidate on, no
\* run() raises (a delete of a key without entry is ignored), and when a run()
\* has returned the wrapped function has been invoked once per run().
C9_Invalidate ==
    (SingleCaller /\ invalidate) =>
        /\ epc[1] # "raised"
        /\ epc[1] = "returned" => SumCalls(Keys) = nruns

\* C12: the default in-process lock. Two callers are never inside a
\* `with self.lock(key)` block for the same key at the same time.
C12_DefaultLockExcludes ==
    \A t, u \in Threads :
        (inwith[t] /\ inwith[u] /\ okey(t) = okey(u)) => t = u

\* The caller has called run().
Called(t) == epc[t] # "idle"

\* C13: default-argument normalization. Two calls of the same wrapped
\* function (same prefix, same name) that enter it with the same value of x,
\* whether x was omitted, passed by keyword or passed positionally, have the
\* same key.
C13_DefaultNormalized ==
    \A t, u \in Threads :
        ( /\ Called(t) /\ Called(u)
          /\ cache_prefix[t] = cache_prefix[u] /\ func_name[t] = func_name[u]
          /\ Bind(ecall[t]) = Bind(ecall[u]) ) => okey(t) = okey(u)

\* C14: key uniqueness over its segments. Two engines that differ in their
\* (cache prefix, function name) pair never compute the same key.
C14_KeyUnique ==
    \A t, u \in Threads :
        ( /\ Called(t) /\ Called(u)
          /\ <<cache_prefix[t], func_name[t]>> # <<cache_prefix[u], func_name[u]>> )
            => okey(t) # okey(u)

\* C15: failure of the wrapped function. A run() whose call of the wrapped
\* function raised has ended with that failure and is inside no `with
\* self.lock(key)` block; no run() returns a value for such a call; the backend
\* never has an entry for a key whose call raises; and with a function that
\* always raises (invalidate off) every run() so far has invoked it again.
C15_FuncFailurePropagates ==
    /\ \A t \in Threads :
          /\ eexc[t] = "FuncError" =>
                (epc[t] = "raised" /\ ~inwith[t] /\ func[Bind(ecall[t])] = "raise")
          /\ (Called(t) /\ func[Bind(ecall[t])] = "raise") => epc[t] # "returned"
          /\ (epc[t] = "raised" /\ ~invalidate /\ \A x \in XVals : func[x] = "raise") =>
                (eexc[t] = "FuncError" /\ SumCalls(Keys) = nruns)
    /\ \A c \in Calls :
          func[Bind(c)] = "raise" => ~exists(key(c.args, c.kwargs))

\* C15: the wrapped function has raised in a run() and then again in a later
\* run() with the same arguments, which ended with the same failure.
C15_Witness ==
    /\ epc[1] = "raised" /\ eexc[1] = "FuncError"
    /\ ncalls[okey(1)] = 2
    /\ ~exists(okey(1))

\* ------------------------------------------------------------- claims: the mutex, continued
\* C16: cast() places the lock file in the lock namespace. Whatever the
\* working directory, right after the cast_lock() of lock() the instance's
\* lock file is in lock_path, is among the names the enumeration yields, and
\* check() is true.
C16_CastInLockPath ==
    [][ \A i \in Crowd :
          (pc[i] \in {"idle", "released", "unlocked"} /\ pc'[i] = "get_oldest") =>
             /\ isfile(i, dir')
             /\ i \in yield_matching_prefix(i, dir')
             /\ check(i, dir') ]_vars

\* C17: the deadlock-age test. A waiter's deadlock check removes (or tries to
\* remove) the lock file it saw as the earliest if and only if the seconds
\* since that file's timestamp exceed deadlock_age_s, a day or more included.
C17_DeadlockAgeTest ==
    [][ \A i \in Crowd :
          (pc[i] = "deadlock" /\ pc'[i] # "deadlock") =>
             ((now - cur[i][1] > deadlock_age_s) <=> (dir' # dir \/ pc'[i] = "raised")) ]_vars

\* C18: no premature reclamation. A lock file that a waiter's deadlock check
\* removes is another instance's and is older than deadlock_age_s at that
\* moment.
C18_NoPrematureReclaim ==
    [][ \A i \in Crowd :
          (pc[i] = "deadlock" /\ pc'[i] # "deadlock") =>
             \A e \in dir \ dir' : e[2] # i /\ now - e[1] > deadlock_age_s ]_vars

\* C19: mutual exclusion without reclamation. While lock files have distinct
\* timestamps and only unlock() removes a lock file, the instance with
\* _lock = TRUE is unique, its lock file is in lock_path and every other lock
\* file there has a later timestamp.
C19_ExclusionWithoutReclaim ==
    \A i \in Crowd :
        _lock[i] =>
            /\ \A j \in Crowd : _lock[j] => j = i
            /\ isfile(i, dir)
            /\ \A e \in dir : e[2] # i => get_lock_time(i, dir) < e[1]

\* C19: an instance holds the mutex while another one, whose lock file is in
\* lock_path too, has seen the holder's file as the earliest and sleeps.
C19_Witness ==
    \E i, j \in Crowd :
        /\ i # j
        /\ _lock[i] /\ isfile(i, dir) /\ isfile(j, dir)
        /\ pc[j] = "sleep" /\ cur[j][2] = i

\* C20: key isolation. An instance never waits behind a lock file cast for
\* another logical key (the earliest lock it sees is one of its own key), and
\* its deadlock check never removes a lock file cast for another key.
C20_KeyIsolation ==
    [][ \A i \in Crowd :
          /\ cur'[i] # NoLock => lkey[cur'[i][2]] = lkey[i]
          /\ (pc[i] = "deadlock" /\ pc'[i] # "deadlock") =>
                \A e \in dir \ dir' : lkey[e[2]] = lkey[i] ]_vars
====
